---- MODULE Spec2Model ----
(***************************************************************************)
(* Mesh-warp engine of lib/motions/motions.py: the displacement effects,   *)
(* the Motion_Transformer object and the free function transform().        *)
(*                                                                         *)
(* Numbers.  numpy's float64 values are modelled in fixed point: the       *)
(* integer n stands for the real n / Scale.  One extra value, NaN, stands  *)
(* for IEEE not-a-number and is absorbing in every arithmetic operation.   *)
(* math.sin is modelled by Bhaskara's rational approximation (exact at     *)
(* multiples of pi/2, error below 0.002 elsewhere); the square root is the *)
(* integer square root of the fixed-point square.                          *)
(*                                                                         *)
(* Grids.  A numpy array of shape (height, width) is a sequence of height  *)
(* rows, each a sequence of width values; grid[r][c] is the element at     *)
(* row r-1, column c-1.  A mesh is the pair of grids together with the     *)
(* dtype of each (int64 or float64): numpy's % by zero gives 0 on integer  *)
(* operands and NaN on floating ones.                                      *)
(***************************************************************************)
EXTENDS Integers, Sequences, FiniteSets, TLC

\* ------------------------------------------------------------------ bounds
\* images are at most MaxW wide and MaxH high; magnitude lists have at most
\* MaxMags entries
MaxW == 2
MaxH == 2
MaxMags == 2

\* ------------------------------------------------------- fixed-point reals
Scale == 10 * 10 * 10
Half == Scale \div 2
Tenth == Scale \div 10
NaN == 0 - (2 ^ 30)

IsNaN(a) == a = NaN
Fix(n) == n * Scale

Add(a, b) == IF IsNaN(a) \/ IsNaN(b) THEN NaN ELSE a + b
Sub(a, b) == IF IsNaN(a) \/ IsNaN(b) THEN NaN ELSE a - b
Mul(a, b) == IF IsNaN(a) \/ IsNaN(b) THEN NaN ELSE (a * b) \div Scale
\* float division of arrays: 0/0 is NaN (a warning, no exception)
Div(a, b) ==
    IF IsNaN(a) \/ IsNaN(b) \/ b = 0 THEN NaN ELSE (a * Scale) \div b
Abs(a) == IF IsNaN(a) THEN NaN ELSE IF a < 0 THEN 0 - a ELSE a
\* np.maximum propagates NaN
Maximum(a, b) == IF IsNaN(a) \/ IsNaN(b) THEN NaN ELSE IF a >= b THEN a ELSE b

RECURSIVE SqrtSearch(_, _, _)
SqrtSearch(v, lo, hi) ==
    IF lo >= hi THEN lo
    ELSE LET mid == (lo + hi + 1) \div 2
         IN  IF mid * mid <= v THEN SqrtSearch(v, mid, hi)
             ELSE SqrtSearch(v, lo, mid - 1)

\* (a ** 2 + b ** 2) ** 0.5 of two fixed-point numbers
Hypot(a, b) ==
    IF IsNaN(a) \/ IsNaN(b) THEN NaN
    ELSE SqrtSearch(a * a + b * b, 0, 46340)

\* sin(pi * t) for a fixed-point t
SinPi(t) ==
    IF IsNaN(t) THEN NaN
    ELSE LET r == t % (2 * Scale)
             u == IF r <= Scale THEN r ELSE r - Scale
             p == u * (Scale - u)
             s == (16 * p) \div ((5 * Scale * Scale - 4 * p) \div Scale)
         IN  IF r <= Scale THEN s ELSE 0 - s

\* ndarray.astype(int) of a finite value: truncation toward zero
Trunc(a) == IF a >= 0 THEN a \div Scale ELSE 0 - ((0 - a) \div Scale)

\* ------------------------------------------------------------------- grids
Height(g) == Len(g)
Width(g) == Len(g[1])
Rows(g) == 1 .. Height(g)
Cols(g) == 1 .. Width(g)

\* The array with the elements of f, each computed once
RECURSIVE TupleOf(_, _)
TupleOf(f, n) == IF n = 0 THEN <<>> ELSE Append(TupleOf(f, n - 1), f[n])
Array(height, width, f) ==
    TupleOf([r \in 1 .. height |-> TupleOf(f[r], width)], height)

\* exc is the exception an effect left with ("none": it returned)
Mesh(x, y, xf, yf) == [x |-> x, y |-> y, xf |-> xf, yf |-> yf, exc |-> "none"]

\* np.meshgrid(np.arange(width), np.arange(height), sparse=False)
meshgrid(width, height) ==
    Mesh(Array(height, width, [r \in 1 .. height |-> [c \in 1 .. width |-> Fix(c - 1)]]),
         Array(height, width, [r \in 1 .. height |-> [c \in 1 .. width |-> Fix(r - 1)]]),
         FALSE, FALSE)

GridPlus(g, off) ==
    Array(Height(g), Width(g),
          [r \in Rows(g) |-> [c \in Cols(g) |-> Add(g[r][c], off[r][c])]])

\* ----------------------------------------------------------------- effects
\* Python numbers passed as wavenum / spikenum / magnitude
PyInt(n) == [v |-> Fix(n), fl |-> FALSE]
PyFloat(v) == [v |-> v, fl |-> TRUE]

\* defaults of the signatures
DefaultMagnitude == PyInt(1)
DefaultWavenum == PyFloat(3 * Half)
DefaultSpikenum == PyInt(5)

explode(m, magnitude) ==
    LET height == Height(m.x)
        width == Width(m.x)
        normalized_distance == Array(height, width,
            [r \in Rows(m.x) |-> [c \in Cols(m.x) |->
                Hypot(Sub(Div(m.x[r][c], Fix(width)), Half),
                      Sub(Div(m.y[r][c], Fix(height)), Half))]])
        new_distance == Array(height, width,
            [r \in Rows(m.x) |-> [c \in Cols(m.x) |->
                Div(normalized_distance[r][c],
                    Add(Maximum(Mul(Mul(Sub(Scale, normalized_distance[r][c]), Fix(3)),
                                    magnitude.v),
                                Scale),
                        Tenth))]])
        nx == Array(height, width,
            [r \in Rows(m.x) |-> [c \in Cols(m.x) |->
                Add(Div(Mul(Sub(m.x[r][c], Fix(width) \div 2), new_distance[r][c]),
                        normalized_distance[r][c]),
                    Fix(width) \div 2)]])
        ny == Array(height, width,
            [r \in Rows(m.x) |-> [c \in Cols(m.x) |->
                Add(Div(Mul(Sub(m.y[r][c], Fix(height) \div 2), new_distance[r][c]),
                        normalized_distance[r][c]),
                    Fix(height) \div 2)]])
    IN  Mesh(nx, ny, TRUE, TRUE)

vertical_wave(m, wavenum, magnitude) ==
    LET height == Height(m.x)
        width == Width(m.x)
        offset == Array(height, width,
            [r \in Rows(m.x) |-> [c \in Cols(m.x) |->
                Div(Mul(Mul(SinPi(Mul(Mul(Div(m.x[r][c], Fix(width)), Fix(2)),
                                      wavenum.v)),
                            magnitude.v),
                        Fix(height)),
                    Fix(4))]])
    IN  Mesh(m.x, GridPlus(m.y, offset), m.xf, TRUE)

horizontal_wave(m, wavenum, magnitude) ==
    LET height == Height(m.x)
        width == Width(m.x)
        offset == Array(height, width,
            [r \in Rows(m.x) |-> [c \in Cols(m.x) |->
                Div(Mul(Mul(SinPi(Mul(Mul(Div(m.y[r][c], Fix(height)), Fix(2)),
                                      wavenum.v)),
                            magnitude.v),
                        Fix(width)),
                    Fix(4))]])
    IN  Mesh(GridPlus(m.x, offset), m.y, TRUE, m.yf)

\* Python's a // b on numbers: ZeroDivisionError is decided by the caller
FloorDiv(a, b) == [v |-> Fix(((a.v * Scale) \div b.v) \div Scale), fl |-> a.fl \/ b.fl]

\* numpy's array % number, one element: the sign follows the divisor; by zero
\* it is 0 when array and divisor are both integers and NaN otherwise
Mod(a, af, b) ==
    IF IsNaN(a) THEN NaN
    ELSE IF b.v = 0 THEN (IF af \/ b.fl THEN NaN ELSE 0)
    ELSE a % b.v

SpikeOffset(g, gf, spike_distance, magnitude) ==
    LET half == FloorDiv(spike_distance, PyInt(2))
    IN  Array(Height(g), Width(g),
            [r \in Rows(g) |-> [c \in Cols(g) |->
                Mul(Mul(Abs(Sub(Mod(g[r][c], gf, spike_distance), half.v)),
                        magnitude.v),
                    Fix(2))]])

vertical_spike(m, spikenum, magnitude) ==
    IF spikenum.v = 0 THEN [m EXCEPT !.exc = "ZeroDivisionError"]
    ELSE LET width == Width(m.x)
             spike_distance == FloorDiv(PyInt(width), spikenum)
             offset == SpikeOffset(m.x, m.xf, spike_distance, magnitude)
         IN  Mesh(m.x, GridPlus(m.y, offset),
                  m.xf, m.yf \/ m.xf \/ spike_distance.fl \/ magnitude.fl)

horizontal_spike(m, spikenum, magnitude) ==
    IF spikenum.v = 0 THEN [m EXCEPT !.exc = "ZeroDivisionError"]
    ELSE LET height == Height(m.x)
             spike_distance == FloorDiv(PyInt(height), spikenum)
             offset == SpikeOffset(m.y, m.yf, spike_distance, magnitude)
         IN  Mesh(GridPlus(m.x, offset), m.y,
                  m.xf \/ m.yf \/ spike_distance.fl \/ magnitude.fl, m.yf)

\* ------------------------------------------------------------ the pipeline
Effects == {"explode", "vertical_wave", "horizontal_wave",
            "vertical_spike", "horizontal_spike"}

\* func(xmesh, ymesh, magnitude): the third positional parameter of the effect
\* receives the value; every other parameter keeps its default
CallPositional(func, m, a) ==
    CASE func = "explode" -> explode(m, a)
      [] func = "vertical_wave" -> vertical_wave(m, a, DefaultMagnitude)
      [] func = "horizontal_wave" -> horizontal_wave(m, a, DefaultMagnitude)
      [] func = "vertical_spike" -> vertical_spike(m, a, DefaultMagnitude)
      [] func = "horizontal_spike" -> horizontal_spike(m, a, DefaultMagnitude)

\* func(xmesh=xmesh, ymesh=ymesh, magnitude=magnitude)
CallKeyword(func, m, a) ==
    CASE func = "explode" -> explode(m, a)
      [] func = "vertical_wave" -> vertical_wave(m, DefaultWavenum, a)
      [] func = "horizontal_wave" -> horizontal_wave(m, DefaultWavenum, a)
      [] func = "vertical_spike" -> vertical_spike(m, DefaultSpikenum, a)
      [] func = "horizontal_spike" -> horizontal_spike(m, DefaultSpikenum, a)

Min(a, b) == IF a <= b THEN a ELSE b

\* for func, magnitude in zip(funclist, magnitudelist): the meshes the loop
\* goes through, the base mesh first; an exception ends it
\* Faulty variant of LoopPositional: every effect is given the base mesh, not
\* its predecessor's
RECURSIVE LoopFromBase(_, _, _, _)
LoopFromBase(funclist, magnitudelist, i, trace) ==
    IF i > Min(Len(funclist), Len(magnitudelist)) THEN trace
    ELSE LET nxt == CallPositional(funclist[i], trace[1], magnitudelist[i])
         IN  IF nxt.exc # "none" THEN Append(trace, nxt)
             ELSE LoopFromBase(funclist, magnitudelist, i + 1, Append(trace, nxt))

RECURSIVE LoopPositional(_, _, _, _)
LoopPositional(funclist, magnitudelist, i, trace) ==
    IF i > Min(Len(funclist), Len(magnitudelist)) THEN trace
    ELSE LET nxt == CallPositional(funclist[i], trace[Len(trace)], magnitudelist[i])
         IN  IF nxt.exc # "none" THEN Append(trace, nxt)
             ELSE LoopPositional(funclist, magnitudelist, i + 1, Append(trace, nxt))

RECURSIVE LoopKeyword(_, _, _, _)
LoopKeyword(funclist, magnitudelist, i, trace) ==
    IF i > Min(Len(funclist), Len(magnitudelist)) THEN trace
    ELSE LET nxt == CallKeyword(funclist[i], trace[Len(trace)], magnitudelist[i])
         IN  IF nxt.exc # "none" THEN Append(trace, nxt)
             ELSE LoopKeyword(funclist, magnitudelist, i + 1, Append(trace, nxt))

\* --------------------------------------------------------------- resampler
\* 2 ** k modulo n
RECURSIVE Pow2Mod(_, _)
Pow2Mod(k, n) == IF k = 0 THEN 1 % n ELSE (2 * Pow2Mod(k - 1, n)) % n

\* Faulty variant of Wrap: the remainder takes the sign of the dividend, as
\* C's % does
WrapTruncated(a, size, cast) ==
    IF IsNaN(a) THEN 0
    ELSE IF Trunc(a) >= 0 THEN Trunc(a) % size ELSE 0 - ((0 - Trunc(a)) % size)

\* mesh.astype(int) % size, one element.  astype(int) of NaN is undefined in
\* C: the build yields the smallest int64 (cast = "min", x86) or 0 (arm).
Wrap(a, size, cast) ==
    IF IsNaN(a) THEN (IF cast = "min" THEN (size - Pow2Mod(63, size)) % size ELSE 0)
    ELSE Trunc(a) % size

\* the pixel of an image at column x, row y: images hold a distinct value
\* per pixel and per image
Pixel(image, x, y) == <<image.id, x, y>>

\* np_img[ymesh.flatten(), xmesh.flatten()].reshape(np_img.shape)
Gather(image, m, cast) ==
    Array(Height(m.x), Width(m.x),
          [r \in Rows(m.x) |-> [c \in Cols(m.x) |->
              Pixel(image, Wrap(m.x[r][c], image.width, cast),
                           Wrap(m.y[r][c], image.height, cast))]])

\* np.array(image): the image as it is
Pixels(image) ==
    Array(image.height, image.width,
          [r \in 1 .. image.height |-> [c \in 1 .. image.width |->
              Pixel(image, c - 1, r - 1)]])

\* ------------------------------------------------------------------- state
\* An image is a PIL image (it has width and height, no shape) or a numpy
\* array (it has a shape, no width or height); id tells the pictures apart.
ImageIds == {0, 1}
Images == [kind : {"PIL", "ndarray"}, id : ImageIds,
           width : 1 .. MaxW, height : 1 .. MaxH]
\* the channel count, the same for all pictures, is left out of the shape
Shape(image) == <<image.height, image.width>>
\* the pictures given to update_image: the smallest and the largest, id 1
NewImages ==
    {i \in Images : i.id = 1 /\ <<i.width, i.height>> \in {<<1, 1>>, <<MaxW, MaxH>>}}

\* magnitudes are Python floats: 0.0, 0.5 and 2.0
Magnitudes == {0, Half, Fix(2)}
RECURSIVE SeqsUpTo(_, _)
SeqsUpTo(S, n) ==
    IF n = 0 THEN {<<>>}
    ELSE LET shorter == SeqsUpTo(S, n - 1)
         IN  shorter \cup {Append(q, e) : q \in {t \in shorter : Len(t) = n - 1}, e \in S}
MagnitudeLists == SeqsUpTo(Magnitudes, MaxMags)

DefaultFunclist == <<"horizontal_wave", "horizontal_spike", "vertical_wave">>
Funclists ==
    {DefaultFunclist} \cup {<<e>> : e \in Effects}
        \cup {<<e, f>> : e \in Effects, f \in Effects}

VARIABLES
    img,            \* the module-level name img (line 214)
    cast,           \* what the build's astype(int) makes of NaN
    self_img,       \* Motion_Transformer.img
    self_funclist,  \* Motion_Transformer.funclist
    self_xmesh,     \* Motion_Transformer.xmesh
    self_ymesh,     \* Motion_Transformer.ymesh
    self_cache,     \* Motion_Transformer.cache
    ret             \* the last call: its arguments and what it returned or raised

vars == <<img, cast, self_img, self_funclist, self_xmesh, self_ymesh, self_cache, ret>>
self_vars == <<self_img, self_funclist, self_xmesh, self_ymesh, self_cache>>

NoImage == [kind |-> "none", id |-> 0, width |-> 0, height |-> 0]

Ret(op, exc, image, magnitudelist, trace, out) ==
    [op |-> op, exc |-> exc, image |-> image, magnitudelist |-> magnitudelist,
     trace |-> trace, out |-> out]

\* no call has returned, or the caller has dropped what the last one returned
NoCall == Ret("none", "none", NoImage, <<>>, <<>>, <<>>)

PyFloats(magnitudelist) == [i \in 1 .. Len(magnitudelist) |-> PyFloat(magnitudelist[i])]

\* the exception the loop left with, "none" when it ran to its end
LoopExc(trace) == trace[Len(trace)].exc

\* img = Image.open(...); transformer = Motion_Transformer(image, funclist=...)
\* The picture opened has id 0 and is given to the constructor as it is or as
\* np.array(img); the pictures given to update_image have id 1.
\* __init__ binds the fields and calls _generate_mesh, which reads the
\* module-level img.  (Imported as a library the module binds no img and
\* _generate_mesh raises NameError: no transformer exists then.)
Init ==
    /\ img \in {i \in Images : i.kind = "PIL" /\ i.id = 0}
    /\ cast \in {"min", "zero"}
    /\ self_img \in {img, [img EXCEPT !.kind = "ndarray"]}
    /\ self_funclist \in Funclists
    /\ self_xmesh = meshgrid(img.width, img.height).x
    /\ self_ymesh = meshgrid(img.width, img.height).y
    /\ self_cache = <<>>
    /\ ret = NoCall

\* Motion_Transformer._generate_mesh, as the next values of the fields
generate_mesh ==
    /\ self_xmesh' = meshgrid(img.width, img.height).x
    /\ self_ymesh' = meshgrid(img.width, img.height).y
    /\ self_cache' = <<>>

\* Motion_Transformer.update_image(new): .shape of a PIL image raises
update_image(new) ==
    IF new.kind # "ndarray" \/ self_img.kind # "ndarray"
    THEN /\ ret' = Ret("update_image", "AttributeError", new, <<>>, <<>>, <<>>)
         /\ UNCHANGED <<img, cast, self_vars>>
    ELSE /\ IF Shape(new) # Shape(self_img)
            THEN generate_mesh
            ELSE UNCHANGED <<self_xmesh, self_ymesh, self_cache>>
         /\ self_img' = new
         /\ ret' = Ret("update_image", "none", new, <<>>, <<>>, <<>>)
         /\ UNCHANGED <<img, cast, self_funclist>>

\* Faulty variant of calculate_output: the loop works on self.xmesh and
\* self.ymesh themselves
calculate_output_inplace(magnitudelist) ==
    LET base == Mesh(self_xmesh, self_ymesh, FALSE, FALSE)
        trace == LoopPositional(self_funclist, PyFloats(magnitudelist), 1, <<base>>)
    IN  /\ ret' = IF LoopExc(trace) # "none"
                  THEN Ret("calculate_output", LoopExc(trace), img, magnitudelist,
                           trace, <<>>)
                  ELSE Ret("calculate_output", "none", img, magnitudelist, trace,
                           Gather(img, trace[Len(trace)], cast))
        /\ self_xmesh' = trace[Len(trace)].x
        /\ self_ymesh' = trace[Len(trace)].y
        /\ UNCHANGED <<img, cast, self_img, self_funclist, self_cache>>

\* Motion_Transformer.calculate_output(magnitudelist)
calculate_output(magnitudelist) ==
    LET base == Mesh(self_xmesh, self_ymesh, FALSE, FALSE)
        trace == LoopPositional(self_funclist, PyFloats(magnitudelist), 1, <<base>>)
    IN  /\ ret' = IF LoopExc(trace) # "none"
                  THEN Ret("calculate_output", LoopExc(trace), img, magnitudelist,
                           trace, <<>>)
                  ELSE Ret("calculate_output", "none", img, magnitudelist, trace,
                           Gather(img, trace[Len(trace)], cast))
        /\ UNCHANGED <<img, cast, self_vars>>

\* transform(image, funclist, magnitudelist), the free function
transform(image, funclist, magnitudelist) ==
    /\ ret' = IF image.kind # "PIL"
              THEN Ret("transform", "AttributeError", image, magnitudelist, <<>>, <<>>)
              ELSE LET base == meshgrid(image.width, image.height)
                       trace == LoopKeyword(funclist, PyFloats(magnitudelist), 1, <<base>>)
                   IN  IF LoopExc(trace) # "none"
                       THEN Ret("transform", LoopExc(trace), image, magnitudelist,
                                trace, <<>>)
                       ELSE Ret("transform", "none", image, magnitudelist, trace,
                                Gather(image, trace[Len(trace)], cast))
    /\ UNCHANGED <<img, cast, self_vars>>

\* the caller drops the result (or the exception) of the last call
drop_result ==
    /\ ret # NoCall
    /\ ret' = NoCall
    /\ UNCHANGED <<img, cast, self_vars>>

\* One call at a time.  A call of calculate_output may be followed at once by
\* the same call again; any other call follows once the result is dropped.
Next ==
    \/ ret = NoCall /\ \E new \in NewImages : update_image(new)
    \/ ret = NoCall /\ \E magnitudelist \in MagnitudeLists :
                           calculate_output(magnitudelist)
    \/ ret.op = "calculate_output" /\ calculate_output(ret.magnitudelist)
    \/ ret = NoCall /\ \E image \in {img, self_img}, magnitudelist \in MagnitudeLists :
                           transform(image, self_funclist, magnitudelist)
    \/ drop_result

Spec == Init /\ [][Next]_vars

\* ------------------------------------------------------------------ claims
Final(trace) == trace[Len(trace)]
Finite(g) == \A r \in Rows(g) : \A c \in Cols(g) : ~IsNaN(g[r][c])
FiniteMesh(m) == Finite(m.x) /\ Finite(m.y)
Returned(op) == ret.op = op /\ ret.exc = "none"

\* C1: calculate_output gives the i-th magnitude to the i-th effect as its
\* magnitude (wavenum and spikenum keep their defaults): the meshes it goes
\* through are those of calling each effect with magnitude = the list entry.
C1_MagnitudePairing ==
    Returned("calculate_output") =>
        Final(ret.trace) =
            Final(LoopKeyword(self_funclist, PyFloats(ret.magnitudelist), 1,
                              <<Mesh(self_xmesh, self_ymesh, FALSE, FALSE)>>))

\* C2: a single effect at magnitude 0, resampled, gives back the input image
\* pixel for pixel.
C2_ZeroMagnitudeIdentity ==
    (/\ ret.op = "transform"
     /\ ret.image.kind = "PIL"
     /\ Len(self_funclist) = 1
     /\ ret.magnitudelist = <<0>>)
        => ret.exc = "none" /\ ret.out = Pixels(ret.image)

\* C3: the base mesh (xmesh and ymesh) has the shape (height, width) of the
\* image bound to the transformer, after construction and after every call.
C3_MeshShape ==
    /\ <<Height(self_xmesh), Width(self_xmesh)>> = Shape(self_img)
    /\ <<Height(self_ymesh), Width(self_ymesh)>> = Shape(self_img)

\* C4: once update_image(new_image) has bound new_image, calculate_output
\* returns an image of new_image's dimensions whose pixels all come from
\* new_image.
C4_OutputFromBoundImage ==
    (Returned("calculate_output") /\ self_img.id = 1) =>
        /\ <<Height(ret.out), Width(ret.out)>> = Shape(self_img)
        /\ \A r \in Rows(ret.out) : \A c \in Cols(ret.out) :
              ret.out[r][c][1] = self_img.id

\* C5: calculate_output leaves the bound image and the base mesh as they
\* were and starts from the base mesh, so the same call made again at once
\* returns (or raises) the same.
C5_CalculateOutputFrame ==
    [][ret'.op = "calculate_output" =>
          /\ self_img' = self_img
          /\ self_xmesh' = self_xmesh
          /\ self_ymesh' = self_ymesh
          /\ ret'.trace[1].x = self_xmesh
          /\ ret'.trace[1].y = self_ymesh
          /\ (ret.op = "calculate_output" /\ ret'.magnitudelist = ret.magnitudelist)
                => (ret'.out = ret.out /\ ret'.exc = ret.exc)]_vars

\* a call returned after an effect moved the mesh, and the base mesh is still
\* the identity grid
C5_Witness ==
    /\ Returned("calculate_output")
    /\ Len(ret.trace) > 1
    /\ Final(ret.trace).x # self_xmesh
    /\ self_xmesh = meshgrid(img.width, img.height).x

\* C6: with k magnitudes for a pipeline of n > k effects, calculate_output
\* applies the first k effects, skips the others and returns without
\* raising; with no magnitude the output is the input image.
C6_ShortMagnitudeList ==
    (ret.op = "calculate_output" /\ Len(ret.magnitudelist) < Len(self_funclist)) =>
        /\ ret.exc = "none"
        /\ Len(ret.trace) = Len(ret.magnitudelist) + 1
        /\ ret.magnitudelist = <<>> => ret.out = Pixels(self_img)

\* C7: every finite mesh coordinate is resampled at a column in 0 .. width-1
\* and a row in 0 .. height-1, and a coordinate equal to width (height)
\* samples column (row) 0.
C7_WrapInBounds ==
    (Returned("calculate_output") \/ Returned("transform")) =>
        \A r \in Rows(ret.out) : \A c \in Cols(ret.out) :
            LET x == Final(ret.trace).x[r][c]
                y == Final(ret.trace).y[r][c]
                px == ret.out[r][c]
            IN  /\ ~IsNaN(x) => px[2] \in 0 .. ret.image.width - 1
                /\ ~IsNaN(y) => px[3] \in 0 .. ret.image.height - 1
                /\ x = Fix(ret.image.width) => px[2] = 0
                /\ y = Fix(ret.image.height) => px[3] = 0

\* a returned call with a coordinate equal to the width and one below -1
C7_Witness ==
    /\ Returned("calculate_output") \/ Returned("transform")
    /\ \E r \in Rows(ret.out) : \E c \in Cols(ret.out) :
          /\ Final(ret.trace).x[r][c] = Fix(ret.image.width)
          /\ ret.out[r][c][2] = 0
    /\ \E r \in Rows(ret.out) : \E c \in Cols(ret.out) :
          /\ ~IsNaN(Final(ret.trace).y[r][c])
          /\ Final(ret.trace).y[r][c] <= Fix(0 - 1)

\* C8: explode yields only defined, finite coordinates, whatever the image
\* size and the magnitude.
C8_ExplodeFinite ==
    ret.op \in {"calculate_output", "transform"} =>
        \A i \in 1 .. Len(ret.trace) - 1 :
            (self_funclist[i] = "explode" /\ FiniteMesh(ret.trace[i]))
                => FiniteMesh(ret.trace[i + 1])

\* C9: calculate_output with the default pipeline raises for no list of
\* finite magnitudes.
C9_DefaultPipelineTotal ==
    (ret.op = "calculate_output" /\ self_funclist = DefaultFunclist)
        => ret.exc = "none"

\* C10: in calculate_output and in transform the first effect is given the
\* identity mesh of the image and every later one the mesh its predecessor
\* returned.
C10_SequentialComposition ==
    ret.op \in {"calculate_output", "transform"} /\ ret.trace # <<>> =>
        /\ ret.trace[1] = meshgrid(ret.image.width, ret.image.height)
        /\ \A i \in 1 .. Len(ret.trace) - 1 :
              ret.trace[i + 1] =
                  IF ret.op = "transform"
                  THEN CallKeyword(self_funclist[i], ret.trace[i],
                                   PyFloat(ret.magnitudelist[i]))
                  ELSE CallPositional(self_funclist[i], ret.trace[i],
                                      PyFloat(ret.magnitudelist[i]))

\* the order of the pipeline shows: [horizontal_spike, vertical_spike] ends
\* on another mesh than [vertical_spike, horizontal_spike] would have
C10_Witness ==
    /\ Returned("calculate_output")
    /\ self_funclist = <<"horizontal_spike", "vertical_spike">>
    /\ Len(ret.magnitudelist) = 2
    /\ \A i \in 1 .. 2 : ret.magnitudelist[i] # 0
    /\ FiniteMesh(Final(ret.trace))
    /\ LET other == Final(LoopPositional(<<"vertical_spike", "horizontal_spike">>,
                                         PyFloats(ret.magnitudelist), 1,
                                         <<ret.trace[1]>>))
       IN  FiniteMesh(other) /\ <<other.x, other.y>> # <<Final(ret.trace).x, Final(ret.trace).y>>

====
